---- MODULE Spec2Model ----
(***************************************************************************)
(* A model of pywiki's transaction module (src/pywiki/transaction.py): the *)
(* query facade (one rpc_request per call) and the two send-and-confirm    *)
(* polling loops built on it.                                              *)
(*                                                                         *)
(* Time is counted in ticks of 0.1 s: random.uniform( 0.2, 0.5 ) is a      *)
(* sleep of 2..5 ticks, a timeout of 1 second is 10 ticks.  The clock      *)
(* advances while an RPC is in flight and while the loop sleeps.           *)
(*                                                                         *)
(* A Python str that the code slices (the block hash) is a sequence of     *)
(* one-character strings; identifiers that are only passed through are     *)
(* plain strings.  A JSON value is a record tagged by its field t.         *)
(***************************************************************************)
EXTENDS Integers, Sequences, FiniteSets, TLC

VARIABLES
    fn,             \* the function of transaction.py that the caller invoked
    args,           \* its positional identifier arguments
    endpoint,       \* its endpoint argument
    timeout,        \* its timeout argument
    pc,             \* position in the invoked function
    now,            \* time.time()
    tx_hash,        \* local of send_and_confirm_*: result of the broadcast
    start_time,     \* local of send_and_confirm_*
    tx_response,    \* local of send_and_confirm_*: result of the last lookup
    outcome,        \* how the call ended: a returned value or a raised error
    requests,       \* every rpc_request issued by the call, in order
    sleeps,         \* number of time.sleep calls made by the call
    last_reply,     \* what rpc_request gave back to the last request
    zeroPolls,      \* history: lookups that returned a record with an all-zero hash
    onlyPending,    \* history: every lookup so far returned null or an all-zero record
    twin,           \* the locals of a second call, run beside the first (SpecPair)
    frames,         \* the locals of each of several invocations, by invocation
    solo,           \* history: each invocation run alone on the inputs it was given
    began           \* the time at which each invocation began its current statement

vars == << fn, args, endpoint, timeout, pc, now, tx_hash, start_time,
           tx_response, outcome, requests, sleeps, last_reply, zeroPolls,
           onlyPending, twin, frames, solo, began >>

---------------------------------------------------------------------------
(* Bounds of the model *)

\* longest body of the short block hashes the node answers with
MaxBody == 2
\* longest time, in ticks, one rpc_request may take
MaxRpcDur == 1
\* the largest timeout a caller passes, in ticks (1 second)
MaxTimeout == 10

---------------------------------------------------------------------------
(* JSON values *)

Null == [t |-> "null"]
Str(s) == [t |-> "str", v |-> s]
Id(s) == [t |-> "id", v |-> s]
Dict(d) == [t |-> "dict", v |-> d]
Unset == [t |-> "unset"]

HexChars == {"0", "1"}

\* number of hex digits of a block hash, as in get_transaction_by_hash's description
HashLen == 64

RECURSIVE Repeat(_, _)
Repeat(c, n) == IF n = 0 THEN << >> ELSE << c >> \o Repeat(c, n - 1)

\* 0x followed by the body
Hex(body) == << "0", "x" >> \o body

\* the canonical empty block hash, and a hash with one non-zero digit at place i
ZeroHash == Hex(Repeat("0", HashLen))
OneAt(i) == Hex([k \in 1 .. HashLen |-> IF k = i THEN "1" ELSE "0"])

ShortBodies == UNION {[1 .. n -> HexChars] : n \in 0 .. MaxBody}

\* block hash strings a lookup may carry
BlockHashStrings == {Hex(b) : b \in ShortBodies} \cup {ZeroHash, OneAt(HashLen)}

BlockHashValues == {Null} \cup {Str(s) : s \in BlockHashStrings}

TxHashes == {"0xa1", "0xb2"}

\* transaction records: the blockHash key may be absent; one record differs
\* from another with the same block hash by its other fields
TxRecords ==
    {Dict([hash |-> Id("0xa1")])}
    \cup {Dict([hash |-> Id("0xa1"), blockHash |-> b]) : b \in BlockHashValues}
    \cup {Dict([hash |-> Id("0xb2"), blockHash |-> Str(OneAt(HashLen))])}

---------------------------------------------------------------------------
(* rpc_request: the transport, as seen from transaction.py *)

\* decoded responses: a JSON object with or without the key "result"
Response(v) == [jsonrpc |-> "2.0", result |-> v]
NoResult == [jsonrpc |-> "2.0"]

\* rpc_request either returns a decoded response or raises
Returned(resp) == [raised |-> FALSE, response |-> resp]
TransportFailure == [raised |-> TRUE, exc |-> "RPCError"]

RepliesWith(values) ==
    {Returned(Response(v)) : v \in values} \cup {Returned(NoResult), TransportFailure}

DEFAULT_ENDPOINT == "http://localhost:9500"
\* 30 seconds
DEFAULT_TIMEOUT == 300

---------------------------------------------------------------------------
(* exceptions.py *)

InvalidRPCReplyError(method, ep) ==
    [exc |-> "InvalidRPCReplyError",
     message |-> << "Unexpected reply for ", method, " from ", ep >>]

TxConfirmationTimedoutError(msg) ==
    [exc |-> "TxConfirmationTimedoutError", message |-> << msg >>]

\* None[ 2 : ]
TypeError == [exc |-> "TypeError", message |-> << "'NoneType' object is not subscriptable" >>]

Return(v) == [kind |-> "return", value |-> v]
Raise(e) == [kind |-> "raise", error |-> e]
Running == [kind |-> "running"]

---------------------------------------------------------------------------
(* The query facade *)

Method ==
    [get_pending_transactions |-> "wikiv2_pendingTransactions",
     get_transaction_error_sink |-> "wikiv2_getCurrentTransactionErrorSink",
     get_pending_staking_transactions |-> "wikiv2_pendingStakingTransactions",
     get_staking_transaction_error_sink |-> "wikiv2_getCurrentStakingErrorSink",
     get_pool_stats |-> "wikiv2_getPoolStats",
     get_transaction_by_hash |-> "wikiv2_getTransactionByHash",
     get_transaction_by_block_hash_and_index |-> "wikiv2_getTransactionByBlockHashAndIndex",
     get_transaction_by_block_number_and_index |-> "wikiv2_getTransactionByBlockNumberAndIndex",
     get_transaction_receipt |-> "wikiv2_getTransactionReceipt",
     send_raw_transaction |-> "wikiv2_sendRawTransaction",
     get_pending_cx_receipts |-> "wikiv2_getPendingCXReceipts",
     get_cx_receipt_by_hash |-> "wikiv2_getCXReceiptByHash",
     resend_cx_receipt |-> "wikiv2_resendCx",
     get_staking_transaction_by_hash |-> "wikiv2_getStakingTransactionByHash",
     get_staking_transaction_by_block_hash_and_index |-> "wikiv2_getStakingTransactionByBlockHashAndIndex",
     get_staking_transaction_by_block_number_and_index |-> "wikiv2_getStakingTransactionByBlockNumberAndIndex",
     send_raw_staking_transaction |-> "wikiv2_sendRawStakingTransaction"]

\* number of identifier parameters each operation declares before endpoint and timeout
Arity ==
    [get_pending_transactions |-> 0,
     get_transaction_error_sink |-> 0,
     get_pending_staking_transactions |-> 0,
     get_staking_transaction_error_sink |-> 0,
     get_pool_stats |-> 0,
     get_transaction_by_hash |-> 1,
     get_transaction_by_block_hash_and_index |-> 2,
     get_transaction_by_block_number_and_index |-> 2,
     get_transaction_receipt |-> 1,
     send_raw_transaction |-> 1,
     get_pending_cx_receipts |-> 0,
     get_cx_receipt_by_hash |-> 1,
     resend_cx_receipt |-> 1,
     get_staking_transaction_by_hash |-> 1,
     get_staking_transaction_by_block_hash_and_index |-> 2,
     get_staking_transaction_by_block_number_and_index |-> 2,
     send_raw_staking_transaction |-> 1,
     send_and_confirm_raw_transaction |-> 1,
     send_and_confirm_raw_staking_transaction |-> 1]

FacadeOps == DOMAIN Method
ConfirmFunctions ==
    {"send_and_confirm_raw_transaction", "send_and_confirm_raw_staking_transaction"}

\* Params with the identifiers in the opposite order: params = [ tx_index, block_hash ]
Params_Reversed(op, ids) == [i \in 1 .. Len(ids) |-> ids[Len(ids) + 1 - i]]

\* params = [ ... ]: the identifier arguments in declaration order
Params(op, ids) == ids

\* the rpc_request( method, params, endpoint, timeout ) an operation issues
Request(op, ids, ep, to) ==
    [method |-> Method[op], params |-> Params(op, ids), endpoint |-> ep, timeout |-> to]

\* Subscript reading the key leniently: rpc_request( ... ).get( "result" )
Subscript_Get(op, ep, reply) ==
    IF reply.raised
    THEN Raise([exc |-> reply.exc, message |-> << >>])
    ELSE IF "result" \in DOMAIN reply.response
         THEN Return(reply.response.result)
         ELSE Return(Null)

\* try: return rpc_request( ... )[ "result" ]
\* except KeyError: raise InvalidRPCReplyError( method, endpoint )
Subscript(op, ep, reply) ==
    IF reply.raised
    THEN Raise([exc |-> reply.exc, message |-> << >>])
    ELSE IF "result" \in DOMAIN reply.response
         THEN Return(reply.response.result)
         ELSE Raise(InvalidRPCReplyError(Method[op], ep))

\* QueryFacade sending the request a second time when the reply has no result
QueryFacade_Retry(op, ids, ep, to, reply) ==
    [issued |-> IF ~reply.raised /\ "result" \notin DOMAIN reply.response
                THEN << Request(op, ids, ep, to), Request(op, ids, ep, to) >>
                ELSE << Request(op, ids, ep, to) >>,
     outcome |-> Subscript(op, ep, reply)]

\* one call of a facade operation, given what rpc_request gives back
QueryFacade(op, ids, ep, to, reply) ==
    [issued |-> << Request(op, ids, ep, to) >>, outcome |-> Subscript(op, ep, reply)]

---------------------------------------------------------------------------
(* Python builtins used by the confirmation loops *)

\* DictGet without the default: d.get( "blockHash" )
DictGet_NoDefault(d, key, default) == IF key \in DOMAIN d THEN d[key] ELSE Null

\* d.get( "blockHash", "0x00" )
DictGet(d, key, default) == IF key \in DOMAIN d THEN d[key] ELSE default

\* Slice2 dropping one character too many: s[ 3 : ]
Slice2_OffByOne(s) == SubSeq(s, 4, Len(s))

\* s[ 2 : ]
Slice2(s) == SubSeq(s, 3, Len(s))

\* set( list( s ) )
CharSet(s) == {s[i] : i \in DOMAIN s}

\* "".join( S ): the elements of the set, each once, in an order Python does not fix
Joins(S) ==
    {u \in [1 .. Cardinality(S) -> S] : \A i, j \in 1 .. Cardinality(S) : u[i] = u[j] => i = j}

\* random.uniform( 0.2, 0.5 ), in ticks
SleepMin == 2
SleepMax == 5

---------------------------------------------------------------------------
(* The locals of one call, and how it ended *)

NewCall ==
    [pc |-> "start", tx_hash |-> Unset, start_time |-> 0, tx_response |-> Unset,
     outcome |-> Running, requests |-> << >>, sleeps |-> 0]

---------------------------------------------------------------------------
(* send_and_confirm_raw_transaction, one operator per statement.  l holds  *)
(* the locals; each operator gives the locals after the statement.         *)

\* TxBroadcast swallowing the failure of the broadcast and polling for None:
\* try: tx_hash = send_raw_transaction( ... ) except Exception: tx_hash = None
TxBroadcast_Swallow(l, signed_tx, ep, reply, clock) ==
    LET call == QueryFacade("send_raw_transaction", << signed_tx >>, ep,
                            DEFAULT_TIMEOUT, reply)
    IN  [l EXCEPT !.requests = @ \o call.issued,
                  !.tx_hash = IF call.outcome.kind = "return"
                              THEN call.outcome.value
                              ELSE Null,
                  !.start_time = clock,
                  !.pc = "while"]

\* TxBroadcast reading the clock first, on entry, where it stands at 0:
\* start_time = time.time(); tx_hash = send_raw_transaction( ... )
TxBroadcast_ClockFirst(l, signed_tx, ep, reply, clock) ==
    LET call == QueryFacade("send_raw_transaction", << signed_tx >>, ep,
                            DEFAULT_TIMEOUT, reply)
    IN  IF call.outcome.kind = "return"
        THEN [l EXCEPT !.requests = @ \o call.issued,
                       !.tx_hash = call.outcome.value,
                       !.start_time = 0,
                       !.pc = "while"]
        ELSE [l EXCEPT !.requests = @ \o call.issued,
                       !.outcome = call.outcome,
                       !.pc = "done"]

\* tx_hash = send_raw_transaction( signed_tx, endpoint = endpoint )
\* start_time = time.time()
TxBroadcast(l, signed_tx, ep, reply, clock) ==
    LET call == QueryFacade("send_raw_transaction", << signed_tx >>, ep,
                            DEFAULT_TIMEOUT, reply)
    IN  IF call.outcome.kind = "return"
        THEN [l EXCEPT !.requests = @ \o call.issued,
                       !.tx_hash = call.outcome.value,
                       !.start_time = clock,
                       !.pc = "while"]
        ELSE [l EXCEPT !.requests = @ \o call.issued,
                       !.outcome = call.outcome,
                       !.pc = "done"]

\* TxLoopTest granting one more minimal sleep:
\* while ( time.time() - start_time ) <= timeout + 0.2
TxLoopTest_Grace(l, limit, clock) ==
    IF (clock - l.start_time) <= limit + SleepMin
    THEN [l EXCEPT !.pc = "lookup"]
    ELSE [l EXCEPT !.outcome = Raise(TxConfirmationTimedoutError(
                                         "Could not confirm transaction on-chain.")),
                   !.pc = "done"]

\* TxLoopTest with a strict bound: while ( time.time() - start_time ) < timeout
TxLoopTest_Strict(l, limit, clock) ==
    IF (clock - l.start_time) < limit
    THEN [l EXCEPT !.pc = "lookup"]
    ELSE [l EXCEPT !.outcome = Raise(TxConfirmationTimedoutError(
                                         "Could not confirm transaction on-chain.")),
                   !.pc = "done"]

\* while ( time.time() - start_time ) <= timeout:
\* ...
\* raise TxConfirmationTimedoutError( "Could not confirm transaction on-chain." )
TxLoopTest(l, limit, clock) ==
    IF (clock - l.start_time) <= limit
    THEN [l EXCEPT !.pc = "lookup"]
    ELSE [l EXCEPT !.outcome = Raise(TxConfirmationTimedoutError(
                                         "Could not confirm transaction on-chain.")),
                   !.pc = "done"]

\* TxLookup asking the default endpoint: get_transaction_by_hash( tx_hash )
TxLookup_DefaultEndpoint(l, ep, reply) ==
    LET call == QueryFacade("get_transaction_by_hash", << l.tx_hash >>, DEFAULT_ENDPOINT,
                            DEFAULT_TIMEOUT, reply)
    IN  IF call.outcome.kind = "return"
        THEN [l EXCEPT !.requests = @ \o call.issued,
                       !.tx_response = call.outcome.value,
                       !.pc = "check"]
        ELSE [l EXCEPT !.requests = @ \o call.issued,
                       !.outcome = call.outcome,
                       !.pc = "done"]

\* TxLookup taking a failed lookup for a transaction not found yet:
\* try: tx_response = get_transaction_by_hash( ... ) except Exception: tx_response = None
TxLookup_Swallow(l, ep, reply) ==
    LET call == QueryFacade("get_transaction_by_hash", << l.tx_hash >>, ep,
                            DEFAULT_TIMEOUT, reply)
    IN  [l EXCEPT !.requests = @ \o call.issued,
                  !.tx_response = IF call.outcome.kind = "return"
                                  THEN call.outcome.value
                                  ELSE Null,
                  !.pc = "check"]

\* tx_response = get_transaction_by_hash( tx_hash, endpoint = endpoint )
TxLookup(l, ep, reply) ==
    LET call == QueryFacade("get_transaction_by_hash", << l.tx_hash >>, ep,
                            DEFAULT_TIMEOUT, reply)
    IN  IF call.outcome.kind = "return"
        THEN [l EXCEPT !.requests = @ \o call.issued,
                       !.tx_response = call.outcome.value,
                       !.pc = "check"]
        ELSE [l EXCEPT !.requests = @ \o call.issued,
                       !.outcome = call.outcome,
                       !.pc = "done"]

\* TxCheck testing only the first digit after 0x: if block_hash[ 2 : 3 ] != "0"
TxCheck_LeadingDigit(l) ==
    IF l.tx_response = Null
    THEN {[l EXCEPT !.pc = "sleep"]}
    ELSE LET block_hash == DictGet(l.tx_response.v, "blockHash", Str(Hex(<< "0", "0" >>)))
         IN  IF block_hash.t # "str"
             THEN {[l EXCEPT !.outcome = Raise(TypeError), !.pc = "done"]}
             ELSE {IF (IF Len(block_hash.v) >= 3 THEN << block_hash.v[3] >> ELSE << >>)
                          # << "0" >>
                   THEN [l EXCEPT !.outcome = Return(l.tx_response), !.pc = "done"]
                   ELSE [l EXCEPT !.pc = "sleep"]}

\* if tx_response is not None:
\*     block_hash = tx_response.get( "blockHash", "0x00" )
\*     unique_chars = "".join( set( list( block_hash[ 2 : ] ) ) )
\*     if unique_chars != "0":
\*         return tx_response
\* The set of locals the statement can lead to: one for each order of the join.
TxCheck(l) ==
    IF l.tx_response = Null
    THEN {[l EXCEPT !.pc = "sleep"]}
    ELSE LET block_hash == DictGet(l.tx_response.v, "blockHash", Str(Hex(<< "0", "0" >>)))
         IN  IF block_hash.t # "str"
             THEN {[l EXCEPT !.outcome = Raise(TypeError), !.pc = "done"]}
             ELSE {IF unique_chars # << "0" >>
                   THEN [l EXCEPT !.outcome = Return(l.tx_response), !.pc = "done"]
                   ELSE [l EXCEPT !.pc = "sleep"] :
                       unique_chars \in Joins(CharSet(Slice2(block_hash.v)))}

\* time.sleep( random.uniform( 0.2, 0.5 ) ): nap is the number drawn
TxSleep(l, nap) == [l EXCEPT !.sleeps = @ + 1, !.pc = "while"]

---------------------------------------------------------------------------
(* send_and_confirm_raw_staking_transaction, likewise *)

\* StakingBroadcast swallowing the failure of the broadcast and polling for None
StakingBroadcast_Swallow(l, signed_tx, ep, reply, clock) ==
    LET call == QueryFacade("send_raw_staking_transaction", << signed_tx >>, ep,
                            DEFAULT_TIMEOUT, reply)
    IN  [l EXCEPT !.requests = @ \o call.issued,
                  !.tx_hash = IF call.outcome.kind = "return"
                              THEN call.outcome.value
                              ELSE Null,
                  !.start_time = clock,
                  !.pc = "while"]

\* tx_hash = send_raw_staking_transaction( signed_tx, endpoint = endpoint )
\* start_time = time.time()
StakingBroadcast(l, signed_tx, ep, reply, clock) ==
    LET call == QueryFacade("send_raw_staking_transaction", << signed_tx >>, ep,
                            DEFAULT_TIMEOUT, reply)
    IN  IF call.outcome.kind = "return"
        THEN [l EXCEPT !.requests = @ \o call.issued,
                       !.tx_hash = call.outcome.value,
                       !.start_time = clock,
                       !.pc = "while"]
        ELSE [l EXCEPT !.requests = @ \o call.issued,
                       !.outcome = call.outcome,
                       !.pc = "done"]

\* StakingLoopTest with a strict bound: while ( time.time() - start_time ) < timeout
StakingLoopTest_Strict(l, limit, clock) ==
    IF (clock - l.start_time) < limit
    THEN [l EXCEPT !.pc = "lookup"]
    ELSE [l EXCEPT !.outcome = Raise(TxConfirmationTimedoutError(
                                         "Could not confirm transaction on-chain.")),
                   !.pc = "done"]

\* while ( time.time() - start_time ) <= timeout:
\* ...
\* raise TxConfirmationTimedoutError( "Could not confirm transaction on-chain." )
StakingLoopTest(l, limit, clock) ==
    IF (clock - l.start_time) <= limit
    THEN [l EXCEPT !.pc = "lookup"]
    ELSE [l EXCEPT !.outcome = Raise(TxConfirmationTimedoutError(
                                         "Could not confirm transaction on-chain.")),
                   !.pc = "done"]

\* StakingLookup handing the caller's timeout on to the lookup:
\* get_staking_transaction_by_hash( tx_hash, endpoint = endpoint, timeout = timeout )
StakingLookup_CallerTimeout(l, ep, reply) ==
    LET call == QueryFacade("get_staking_transaction_by_hash", << l.tx_hash >>, ep,
                            timeout, reply)
    IN  IF call.outcome.kind = "return"
        THEN [l EXCEPT !.requests = @ \o call.issued,
                       !.tx_response = call.outcome.value,
                       !.pc = "check"]
        ELSE [l EXCEPT !.requests = @ \o call.issued,
                       !.outcome = call.outcome,
                       !.pc = "done"]

\* tx_response = get_staking_transaction_by_hash( tx_hash, endpoint = endpoint )
StakingLookup(l, ep, reply) ==
    LET call == QueryFacade("get_staking_transaction_by_hash", << l.tx_hash >>, ep,
                            DEFAULT_TIMEOUT, reply)
    IN  IF call.outcome.kind = "return"
        THEN [l EXCEPT !.requests = @ \o call.issued,
                       !.tx_response = call.outcome.value,
                       !.pc = "check"]
        ELSE [l EXCEPT !.requests = @ \o call.issued,
                       !.outcome = call.outcome,
                       !.pc = "done"]

\* StakingCheck going straight back to the test of the loop when nothing was found:
\* if tx_response is None: continue
StakingCheck_NoSleepOnNone(l) ==
    IF l.tx_response = Null
    THEN {[l EXCEPT !.pc = "while"]}
    ELSE LET block_hash == DictGet(l.tx_response.v, "blockHash", Str(Hex(<< "0", "0" >>)))
         IN  IF block_hash.t # "str"
             THEN {[l EXCEPT !.outcome = Raise(TypeError), !.pc = "done"]}
             ELSE {IF unique_chars # << "0" >>
                   THEN [l EXCEPT !.outcome = Return(l.tx_response), !.pc = "done"]
                   ELSE [l EXCEPT !.pc = "sleep"] :
                       unique_chars \in Joins(CharSet(Slice2(block_hash.v)))}

\* if tx_response is not None: ... if unique_chars != "0": return tx_response
StakingCheck(l) ==
    IF l.tx_response = Null
    THEN {[l EXCEPT !.pc = "sleep"]}
    ELSE LET block_hash == DictGet(l.tx_response.v, "blockHash", Str(Hex(<< "0", "0" >>)))
         IN  IF block_hash.t # "str"
             THEN {[l EXCEPT !.outcome = Raise(TypeError), !.pc = "done"]}
             ELSE {IF unique_chars # << "0" >>
                   THEN [l EXCEPT !.outcome = Return(l.tx_response), !.pc = "done"]
                   ELSE [l EXCEPT !.pc = "sleep"] :
                       unique_chars \in Joins(CharSet(Slice2(block_hash.v)))}

\* time.sleep( random.uniform( 0.2, 0.5 ) )
StakingSleep(l, nap) == [l EXCEPT !.sleeps = @ + 1, !.pc = "while"]

---------------------------------------------------------------------------
(* Dispatch on the function that was called *)

IsTx(f) == f = "send_and_confirm_raw_transaction"

BroadcastOf(f, l, signed_tx, ep, reply, clock) ==
    IF IsTx(f) THEN TxBroadcast(l, signed_tx, ep, reply, clock)
               ELSE StakingBroadcast(l, signed_tx, ep, reply, clock)

LoopTestOf(f, l, limit, clock) ==
    IF IsTx(f) THEN TxLoopTest(l, limit, clock) ELSE StakingLoopTest(l, limit, clock)

LookupOf(f, l, ep, reply) ==
    IF IsTx(f) THEN TxLookup(l, ep, reply) ELSE StakingLookup(l, ep, reply)

CheckOf(f, l) == IF IsTx(f) THEN TxCheck(l) ELSE StakingCheck(l)

SleepOf(f, l, nap) == IF IsTx(f) THEN TxSleep(l, nap) ELSE StakingSleep(l, nap)

Other(f) ==
    IF IsTx(f) THEN "send_and_confirm_raw_staking_transaction"
               ELSE "send_and_confirm_raw_transaction"

---------------------------------------------------------------------------
(* What the history variables record, stated without the code's predicate *)

IsRecord(v) == v.t = "dict"

HasHashString(v) ==
    IsRecord(v) /\ "blockHash" \in DOMAIN v.v /\ v.v.blockHash.t = "str"

\* the part of a block hash string after its 0x prefix
Body(v) == SubSeq(v.v.blockHash.v, 3, Len(v.v.blockHash.v))

\* a record whose block hash is 0x followed by zeros only (at least one)
AllZeroRecord(v) ==
    /\ HasHashString(v)
    /\ Len(Body(v)) > 0
    /\ \A i \in 1 .. Len(Body(v)) : Body(v)[i] = "0"

\* a record whose block hash has a non-zero character after the 0x prefix
NonZeroRecord(v) ==
    /\ HasHashString(v)
    /\ \E i \in 1 .. Len(Body(v)) : Body(v)[i] # "0"

HasResult(reply) == ~reply.raised /\ "result" \in DOMAIN reply.response

PendingReply(reply) ==
    HasResult(reply)
    /\ (reply.response.result = Null \/ AllZeroRecord(reply.response.result))

---------------------------------------------------------------------------
(* The state machine *)

Idents == {Id(h) : h \in TxHashes}
RawTxs == {Id("0xf8")}
Endpoints == {DEFAULT_ENDPOINT, "http://node:9500"}
Timeouts == {-1, 0, MaxTimeout}
Functions == FacadeOps \cup ConfirmFunctions

ArgValues(f) == IF f \in ConfirmFunctions THEN RawTxs ELSE Idents

\* what the node may answer to a facade operation called on its own
ResultValues == {Null} \cup Idents \cup TxRecords
\* ... to a broadcast: the transaction hash
BroadcastValues == {Null, Id("0xa1")}
\* ... to a by-hash lookup
LookupValues == {Null} \cup TxRecords

\* the locals of the call, as one record
Locals ==
    [pc |-> pc, tx_hash |-> tx_hash, start_time |-> start_time,
     tx_response |-> tx_response, outcome |-> outcome, requests |-> requests,
     sleeps |-> sleeps]

Becomes(l) ==
    /\ pc' = l.pc
    /\ tx_hash' = l.tx_hash
    /\ start_time' = l.start_time
    /\ tx_response' = l.tx_response
    /\ outcome' = l.outcome
    /\ requests' = l.requests
    /\ sleeps' = l.sleeps

InitCall ==
    /\ args \in [1 .. Arity[fn] -> ArgValues(fn)]
    /\ endpoint \in Endpoints
    /\ timeout \in Timeouts
    /\ now = 0
    /\ pc = NewCall.pc
    /\ tx_hash = NewCall.tx_hash
    /\ start_time = NewCall.start_time
    /\ tx_response = NewCall.tx_response
    /\ outcome = NewCall.outcome
    /\ requests = NewCall.requests
    /\ sleeps = NewCall.sleeps
    /\ last_reply = Unset
    /\ zeroPolls = 0
    /\ onlyPending = TRUE
    /\ twin = NewCall
    /\ frames = << >>
    /\ solo = << >>
    /\ began = << >>

Init ==
    /\ fn \in Functions
    /\ InitCall

\* A facade operation called by the caller: one rpc_request, then return or raise.
CallFacade ==
    /\ pc = "start"
    /\ fn \in FacadeOps
    /\ \E reply \in RepliesWith(ResultValues), d \in 0 .. MaxRpcDur :
           LET call == QueryFacade(fn, args, endpoint, timeout, reply)
           IN  /\ requests' = requests \o call.issued
               /\ outcome' = call.outcome
               /\ last_reply' = reply
               /\ now' = now + d
    /\ pc' = "done"
    /\ UNCHANGED << fn, args, endpoint, timeout, tx_hash, start_time, tx_response,
                    sleeps, zeroPolls, onlyPending, twin, frames, solo, began >>

\* the broadcast and the reading of the start time, the RPC taking d ticks
BroadcastWith(reply, d) ==
    /\ pc = "start"
    /\ fn \in ConfirmFunctions
    /\ now' = now + d
    /\ Becomes(BroadcastOf(fn, Locals, args[1], endpoint, reply, now + d))
    /\ last_reply' = reply
    /\ UNCHANGED << fn, args, endpoint, timeout, zeroPolls, onlyPending >>

\* the test of the while loop
LoopTestStep ==
    /\ pc = "while"
    /\ Becomes(LoopTestOf(fn, Locals, timeout, now))
    /\ UNCHANGED << fn, args, endpoint, timeout, now, last_reply, zeroPolls,
                    onlyPending >>

\* the by-hash lookup, the RPC taking d ticks
LookupWith(reply, d) ==
    /\ pc = "lookup"
    /\ now' = now + d
    /\ Becomes(LookupOf(fn, Locals, endpoint, reply))
    /\ last_reply' = reply
    /\ onlyPending' = (onlyPending /\ PendingReply(reply))
    /\ zeroPolls' = IF HasResult(reply) /\ AllZeroRecord(reply.response.result)
                    THEN zeroPolls + 1
                    ELSE zeroPolls
    /\ UNCHANGED << fn, args, endpoint, timeout >>

\* the test of the lookup's result
CheckStep ==
    /\ pc = "check"
    /\ \E l \in CheckOf(fn, Locals) : Becomes(l)
    /\ UNCHANGED << fn, args, endpoint, timeout, now, last_reply, zeroPolls,
                    onlyPending >>

\* the sleep between two lookups, of nap ticks
SleepWith(nap) ==
    /\ pc = "sleep"
    /\ now' = now + nap
    /\ Becomes(SleepOf(fn, Locals, nap))
    /\ UNCHANGED << fn, args, endpoint, timeout, last_reply, zeroPolls, onlyPending >>

Broadcast ==
    /\ \E reply \in RepliesWith(BroadcastValues), d \in 0 .. MaxRpcDur :
           BroadcastWith(reply, d)
    /\ UNCHANGED << twin, frames, solo, began >>

LoopTest == LoopTestStep /\ UNCHANGED << twin, frames, solo, began >>

Lookup ==
    /\ \E reply \in RepliesWith(LookupValues), d \in 0 .. MaxRpcDur : LookupWith(reply, d)
    /\ UNCHANGED << twin, frames, solo, began >>

Check == CheckStep /\ UNCHANGED << twin, frames, solo, began >>

Sleep ==
    /\ \E nap \in SleepMin .. SleepMax : SleepWith(nap)
    /\ UNCHANGED << twin, frames, solo, began >>

Next ==
    \/ CallFacade
    \/ Broadcast
    \/ LoopTest
    \/ Lookup
    \/ Check
    \/ Sleep

\* send_and_confirm_raw_transaction and, beside it in twin, the staking function, both
\* given the same arguments, the same replies, the same clock and the same sleeps.
InitPair ==
    /\ fn = "send_and_confirm_raw_transaction"
    /\ InitCall

PairBroadcast ==
    /\ twin.pc = "start"
    /\ \E reply \in RepliesWith(BroadcastValues), d \in 0 .. MaxRpcDur :
           /\ BroadcastWith(reply, d)
           /\ twin' = BroadcastOf(Other(fn), twin, args[1], endpoint, reply, now + d)
    /\ UNCHANGED << frames, solo, began >>

PairLoopTest ==
    /\ twin.pc = "while"
    /\ LoopTestStep
    /\ twin' = LoopTestOf(Other(fn), twin, timeout, now)
    /\ UNCHANGED << frames, solo, began >>

PairLookup ==
    /\ twin.pc = "lookup"
    /\ \E reply \in RepliesWith(LookupValues), d \in 0 .. MaxRpcDur :
           /\ LookupWith(reply, d)
           /\ twin' = LookupOf(Other(fn), twin, endpoint, reply)
    /\ UNCHANGED << frames, solo, began >>

PairCheck ==
    /\ twin.pc = "check"
    /\ CheckStep
    /\ twin' \in CheckOf(Other(fn), twin)
    /\ UNCHANGED << frames, solo, began >>

PairSleep ==
    /\ twin.pc = "sleep"
    /\ \E nap \in SleepMin .. SleepMax :
           /\ SleepWith(nap)
           /\ twin' = SleepOf(Other(fn), twin, nap)
    /\ UNCHANGED << frames, solo, began >>

NextPair ==
    \/ PairBroadcast
    \/ PairLoopTest
    \/ PairLookup
    \/ PairCheck
    \/ PairSleep

SpecPair == InitPair /\ [][NextPair]_vars

\* The confirmation test on its own: a call that has broadcast and looked up once,
\* the lookup having returned any of the records below.
PredicateInputs ==
    TxRecords
    \cup {Dict([hash |-> Id("0xa1"), blockHash |-> Str(OneAt(i))]) : i \in 1 .. HashLen}

InitPredicate ==
    /\ fn \in ConfirmFunctions
    /\ args = << Id("0xf8") >>
    /\ endpoint = DEFAULT_ENDPOINT
    /\ timeout = MaxTimeout
    /\ now = 0
    /\ \E rec \in PredicateInputs :
           LET sent == BroadcastOf(fn, NewCall, args[1], endpoint,
                                   Returned(Response(Id("0xa1"))), 0)
               tested == LoopTestOf(fn, sent, timeout, 0)
               l == LookupOf(fn, tested, endpoint, Returned(Response(rec)))
           IN  /\ pc = l.pc
               /\ tx_hash = l.tx_hash
               /\ start_time = l.start_time
               /\ tx_response = l.tx_response
               /\ outcome = l.outcome
               /\ requests = l.requests
               /\ sleeps = l.sleeps
               /\ last_reply = Returned(Response(rec))
               /\ zeroPolls = IF AllZeroRecord(rec) THEN 1 ELSE 0
               /\ onlyPending = AllZeroRecord(rec)
    /\ twin = NewCall
    /\ frames = << >>
    /\ solo = << >>
    /\ began = << >>

SpecPredicate == InitPredicate /\ [][Check]_vars

Spec == Init /\ [][Next]_vars

\* The calls are sequential code: a call that can take a step takes it.
FairSpec == Spec /\ WF_vars(Next)

---------------------------------------------------------------------------
(* Several invocations of send_and_confirm_raw_transaction.  Each has the  *)
(* frame Python gives an invocation, with its own tx_hash, start_time and  *)
(* tx_response.  All of them read one clock.  An RPC or a sleep of one of  *)
(* them lasts from the time the invocation began it, and the others may    *)
(* run, wait and sleep meanwhile.  Two invocations run side by side        *)
(* (SpecConc), or the second is made after the first has timed out         *)
(* (SpecAgain).                                                            *)

Calls == {1, 2}

\* the timeout, in ticks, that the callers of the several invocations pass
ShortTimeout == 3

\* an invocation the caller has not made yet
NotCalled == [NewCall EXCEPT !.pc = "idle"]

\* Store with tx_hash a name of the module instead of a local: global tx_hash
Store_Global(fs, c, l) ==
    [k \in DOMAIN fs |-> IF k = c THEN l ELSE [fs[k] EXCEPT !.tx_hash = l.tx_hash]]

\* tx_hash = ..., start_time = ..., tx_response = ...: an assignment in the body
\* binds a name in the frame of the invocation that executes it, and in no other
Store(fs, c, l) == [fs EXCEPT ![c] = l]

\* Reenter picking up the wait of the earlier invocation: its hash and its start time
Reenter_Resume(earlier) == [earlier EXCEPT !.pc = "while", !.outcome = Running]

\* def send_and_confirm_raw_transaction( signed_tx, endpoint, timeout ): the frame of
\* an invocation made after an earlier one has ended holds nothing of the earlier one
Reenter(earlier) == NewCall

SignedTxs == << Id("0xf8"), Id("0xf9") >>

SeveralBroadcastReplies ==
    {Returned(Response(h)) : h \in Idents} \cup {Returned(NoResult)}

SeveralLookupValues ==
    {Null,
     Dict([hash |-> Id("0xa1"), blockHash |-> Str(OneAt(HashLen))]),
     Dict([hash |-> Id("0xb2"), blockHash |-> Str(OneAt(HashLen))])}

SeveralLookupReplies ==
    {Returned(Response(v)) : v \in SeveralLookupValues} \cup {Returned(NoResult)}

\* the variables of the single call, unused here
single ==
    << pc, tx_hash, start_time, tx_response, outcome, requests, sleeps, last_reply,
       zeroPolls, onlyPending, twin >>

InitSeveral ==
    /\ fn = "send_and_confirm_raw_transaction"
    /\ endpoint = "http://node:9500"
    /\ timeout = ShortTimeout
    /\ now = 0
    /\ pc = NewCall.pc
    /\ tx_hash = NewCall.tx_hash
    /\ start_time = NewCall.start_time
    /\ tx_response = NewCall.tx_response
    /\ outcome = NewCall.outcome
    /\ requests = NewCall.requests
    /\ sleeps = NewCall.sleeps
    /\ last_reply = Unset
    /\ zeroPolls = 0
    /\ onlyPending = TRUE
    /\ twin = NewCall

\* two invocations for two transactions, both made at the start
InitConc ==
    /\ InitSeveral
    /\ args = SignedTxs
    /\ frames = [c \in Calls |-> NewCall]
    /\ solo = [c \in Calls |-> NewCall]
    /\ began = [c \in Calls |-> 0]

\* one invocation, and a second for the same signed transaction that is not made yet
InitAgain ==
    /\ InitSeveral
    /\ args \in {<< SignedTxs[i], SignedTxs[i] >> : i \in Calls}
    /\ frames = [c \in Calls |-> IF c = 1 THEN NewCall ELSE NotCalled]
    /\ solo = [c \in Calls |-> IF c = 1 THEN NewCall ELSE NotCalled]
    /\ began = [c \in Calls |-> 0]

\* the time at which something that invocation c began, and that lasts d, is over
Over(c, d) == IF began[c] + d > now THEN began[c] + d ELSE now

\* invocation c broadcasts and reads its start time
BroadcastBy(c) ==
    /\ frames[c].pc = "start"
    /\ \E reply \in SeveralBroadcastReplies, d \in 0 .. MaxRpcDur :
           /\ now' = Over(c, d)
           /\ frames' = Store(frames, c, BroadcastOf(fn, frames[c], args[c], endpoint,
                                                     reply, Over(c, d)))
           /\ solo' = [solo EXCEPT ![c] = BroadcastOf(fn, solo[c], args[c], endpoint,
                                                      reply, Over(c, d))]
    /\ began' = [began EXCEPT ![c] = now']
    /\ UNCHANGED << fn, args, endpoint, timeout, single >>

\* invocation c tests its deadline
LoopTestBy(c) ==
    /\ frames[c].pc = "while"
    /\ frames' = Store(frames, c, LoopTestOf(fn, frames[c], timeout, now))
    /\ solo' = [solo EXCEPT ![c] = LoopTestOf(fn, solo[c], timeout, now)]
    /\ began' = [began EXCEPT ![c] = now]
    /\ UNCHANGED << fn, args, endpoint, timeout, now, single >>

\* invocation c looks its transaction up
LookupBy(c) ==
    /\ frames[c].pc = "lookup"
    /\ \E reply \in SeveralLookupReplies, d \in 0 .. MaxRpcDur :
           /\ now' = Over(c, d)
           /\ frames' = Store(frames, c, LookupOf(fn, frames[c], endpoint, reply))
           /\ solo' = [solo EXCEPT ![c] = LookupOf(fn, solo[c], endpoint, reply)]
    /\ began' = [began EXCEPT ![c] = now']
    /\ UNCHANGED << fn, args, endpoint, timeout, single >>

\* invocation c tests what its lookup returned
CheckBy(c) ==
    /\ frames[c].pc = "check"
    /\ \E l \in CheckOf(fn, frames[c]) : frames' = Store(frames, c, l)
    /\ \E m \in CheckOf(fn, solo[c]) : solo' = [solo EXCEPT ![c] = m]
    /\ began' = [began EXCEPT ![c] = now]
    /\ UNCHANGED << fn, args, endpoint, timeout, now, single >>

\* invocation c sleeps
SleepBy(c) ==
    /\ frames[c].pc = "sleep"
    /\ \E nap \in SleepMin .. SleepMax :
           /\ now' = Over(c, nap)
           /\ frames' = Store(frames, c, SleepOf(fn, frames[c], nap))
           /\ solo' = [solo EXCEPT ![c] = SleepOf(fn, solo[c], nap)]
    /\ began' = [began EXCEPT ![c] = now']
    /\ UNCHANGED << fn, args, endpoint, timeout, single >>

SomeBroadcast == \E c \in Calls : BroadcastBy(c)
SomeLoopTest == \E c \in Calls : LoopTestBy(c)
SomeLookup == \E c \in Calls : LookupBy(c)
SomeCheck == \E c \in Calls : CheckBy(c)
SomeSleep == \E c \in Calls : SleepBy(c)

\* the caller, whose first invocation has timed out, invokes the function again
Reinvoke ==
    /\ frames[1].pc = "done"
    /\ frames[1].outcome.kind = "raise"
    /\ frames[1].outcome.error.exc = "TxConfirmationTimedoutError"
    /\ frames[2].pc = "idle"
    /\ frames' = Store(frames, 2, Reenter(frames[1]))
    /\ solo' = [solo EXCEPT ![2] = NewCall]
    /\ began' = [began EXCEPT ![2] = now]
    /\ UNCHANGED << fn, args, endpoint, timeout, now, single >>

NextConc ==
    \/ SomeBroadcast
    \/ SomeLoopTest
    \/ SomeLookup
    \/ SomeCheck
    \/ SomeSleep

NextAgain ==
    \/ SomeBroadcast
    \/ SomeLoopTest
    \/ SomeLookup
    \/ SomeCheck
    \/ SomeSleep
    \/ Reinvoke

SpecConc == InitConc /\ [][NextConc]_vars

SpecAgain == InitAgain /\ [][NextAgain]_vars

---------------------------------------------------------------------------
(* numbers.py.  A Python int is its sequence of decimal digits, a Decimal  *)
(* a coefficient (a sequence of digits) and an exponent of ten, a str a    *)
(* sequence of characters, a float the exact value of the double together  *)
(* with the characters str( ) gives for it.  Amounts are not negative.     *)

PyInt(ds) == [t |-> "int", digits |-> ds]
Dec(coef, exp) == [t |-> "decimal", coef |-> coef, exp |-> exp]
PyFloat(exact, chars) == [t |-> "float", exact |-> exact, repr |-> chars]

Zeros(n) == [i \in 1 .. n |-> 0]

RECURSIVE StripLeft(_)
StripLeft(ds) ==
    IF ds = << >> THEN << 0 >>
    ELSE IF Len(ds) > 1 /\ ds[1] = 0 THEN StripLeft(Tail(ds)) ELSE ds

\* from decimal import Decimal: the precision of the default context, in digits
Prec == 28

\* the coefficient plus one
RECURSIVE Inc(_)
Inc(ds) ==
    IF ds = << >> THEN << 1 >>
    ELSE IF ds[Len(ds)] < 9 THEN [ds EXCEPT ![Len(ds)] = @ + 1]
    ELSE Inc(SubSeq(ds, 1, Len(ds) - 1)) \o << 0 >>

\* what every operation of Decimal does to its result: round it to the precision of
\* the context, half to even
Fix(d) ==
    IF Len(d.coef) <= Prec THEN d
    ELSE LET keep == SubSeq(d.coef, 1, Prec)
             rest == SubSeq(d.coef, Prec + 1, Len(d.coef))
             more == \E i \in 2 .. Len(rest) : rest[i] # 0
             up == \/ rest[1] > 5
                   \/ rest[1] = 5 /\ (more \/ keep[Prec] % 2 = 1)
             r == IF up THEN Inc(keep) ELSE keep
         IN  IF Len(r) > Prec
             THEN Dec(SubSeq(r, 1, Prec), d.exp + Len(rest) + 1)
             ELSE Dec(r, d.exp + Len(rest))

\* an exact quotient is brought as near to the ideal exponent as its zeros allow
RECURSIVE Reduce(_, _)
Reduce(d, ideal) ==
    IF d.exp < ideal /\ d.coef[Len(d.coef)] = 0
    THEN Reduce(Dec(IF Len(d.coef) = 1 THEN d.coef ELSE SubSeq(d.coef, 1, Len(d.coef) - 1),
                    d.exp + 1), ideal)
    ELSE d

\* x / y for a y whose coefficient is a one followed by zeros, as _conversion_unit is:
\* the quotient has the digits of x
DecimalDiv(x, y) ==
    Fix(Reduce(Dec(x.coef, x.exp - y.exp - (Len(y.coef) - 1)), x.exp - y.exp))

\* x * y for such a y: the product of the coefficients, the sum of the exponents
DecimalMul(x, y) ==
    Fix(Dec(IF x.coef = << 0 >> THEN x.coef ELSE x.coef \o Zeros(Len(y.coef) - 1),
            x.exp + y.exp))

DigitOf(c) ==
    CASE c = "0" -> 0 [] c = "1" -> 1 [] c = "2" -> 2 [] c = "3" -> 3 [] c = "4" -> 4
      [] c = "5" -> 5 [] c = "6" -> 6 [] c = "7" -> 7 [] c = "8" -> 8 [] c = "9" -> 9

\* the place of the first character of s that is in cs, 0 if there is none
IndexOf(s, cs) ==
    IF \E i \in DOMAIN s : s[i] \in cs
    THEN CHOOSE i \in DOMAIN s : s[i] \in cs /\ \A j \in 1 .. i - 1 : s[j] \notin cs
    ELSE 0

RECURSIVE NatOf(_)
NatOf(s) == IF s = << >> THEN 0 ELSE 10 * NatOf(SubSeq(s, 1, Len(s) - 1)) + DigitOf(s[Len(s)])

\* Decimal( "..." ): digits, an optional point, an optional exponent
ParseDecimal(s) ==
    LET e == IndexOf(s, {"e", "E"})
        mant == IF e = 0 THEN s ELSE SubSeq(s, 1, e - 1)
        expo == IF e = 0 THEN << >> ELSE SubSeq(s, e + 1, Len(s))
        dot == IndexOf(mant, {"."})
        whole == IF dot = 0 THEN mant ELSE SubSeq(mant, 1, dot - 1)
        frac == IF dot = 0 THEN << >> ELSE SubSeq(mant, dot + 1, Len(mant))
        signed == expo # << >> /\ expo[1] \in {"-", "+"}
        power == NatOf(IF signed THEN Tail(expo) ELSE expo)
        all == whole \o frac
    IN  Dec(StripLeft([i \in 1 .. Len(all) |-> DigitOf(all[i])]),
            (IF signed /\ expo[1] = "-" THEN 0 - power ELSE power) - Len(frac))

\* Decimal( v ): exact, whatever v is
DecimalOf(v) ==
    CASE v.t = "int" -> Dec(v.digits, 0)
      [] v.t = "str" -> ParseDecimal(v.v)
      [] v.t = "decimal" -> v
      [] v.t = "float" -> v.exact

\* int( x ) of a float: towards zero
IntOfFloat(x) ==
    LET c == x.exact.coef
        e == x.exact.exp
    IN  PyInt(IF e >= 0 THEN (IF c = << 0 >> THEN c ELSE c \o Zeros(e))
              ELSE IF Len(c) + e <= 0 THEN << 0 >>
              ELSE SubSeq(c, 1, Len(c) + e))

\* str( x ) of a float
StrOfFloat(x) == Str(x.repr)

\* the value of the digits ds, modulo m
RECURSIVE ModOf(_, _)
ModOf(ds, m) ==
    IF ds = << >> THEN 0 ELSE (10 * ModOf(SubSeq(ds, 1, Len(ds) - 1), m) + ds[Len(ds)]) % m

\* the floats of the tests and some more: 1e18
F_1e18 ==
    PyFloat(Dec(<< 1, 0, 0, 0, 0, 0, 0, 0, 0, 0, 0, 0, 0, 0, 0, 0, 0, 0, 0 >>, 0), << "1", "e", "+", "1", "8" >>)
\* 0.6
F_0_6 ==
    PyFloat(Dec(<< 5, 9, 9, 9, 9, 9, 9, 9, 9, 9, 9, 9, 9, 9, 9, 9, 7, 7, 7, 9, 5, 5, 3, 9, 5, 0, 7, 4, 9, 6, 8, 6, 9, 1, 9, 1, 5, 2, 7, 3, 6, 6, 6, 3, 8, 1, 8, 3, 5, 9, 3, 7, 5 >>, -53), << "0", ".", "6" >>)
\* 1e-18
F_1e_18 ==
    PyFloat(Dec(<< 1, 0, 0, 0, 0, 0, 0, 0, 0, 0, 0, 0, 0, 0, 0, 0, 0, 7, 1, 5, 4, 2, 4, 2, 4, 0, 5, 4, 6, 2, 1, 9, 2, 4, 5, 0, 8, 5, 2, 8, 0, 5, 6, 1, 8, 4, 9, 2, 3, 2, 4, 7, 7, 2, 6, 1, 7, 0, 6, 3, 6, 4, 4, 0, 2, 0, 1, 6, 3, 3, 3, 7, 7, 0, 0, 0, 6, 8, 9, 5, 0, 6, 5, 3, 0, 7, 6, 1, 7, 1, 8, 7, 5 >>, -110), << "1", "e", "-", "1", "8" >>)
\* 1.5
F_1_5 ==
    PyFloat(Dec(<< 1, 5 >>, -1), << "1", ".", "5" >>)
\* 1234.5
F_1234_5 ==
    PyFloat(Dec(<< 1, 2, 3, 4, 5 >>, -1), << "1", "2", "3", "4", ".", "5" >>)
\* 1e23
F_1e23 ==
    PyFloat(Dec(<< 9, 9, 9, 9, 9, 9, 9, 9, 9, 9, 9, 9, 9, 9, 9, 9, 1, 6, 1, 1, 3, 9, 2 >>, 0), << "1", "e", "+", "2", "3" >>)
\* 0.1
F_0_1 ==
    PyFloat(Dec(<< 1, 0, 0, 0, 0, 0, 0, 0, 0, 0, 0, 0, 0, 0, 0, 0, 0, 5, 5, 5, 1, 1, 1, 5, 1, 2, 3, 1, 2, 5, 7, 8, 2, 7, 0, 2, 1, 1, 8, 1, 5, 8, 3, 4, 0, 4, 5, 4, 1, 0, 1, 5, 6, 2, 5 >>, -55), << "0", ".", "1" >>)

\* x + y of two floats, for an integral x from 2^59 up to 2^60, where the doubles are
\* the multiples of 128, and a y below one: the sum rounds to the nearest double, x
FloatAdd(x, y) ==
    IF x.exact.exp = 0 /\ ModOf(x.exact.coef, 128) = 0 /\ Len(y.exact.coef) + y.exact.exp <= 0
    THEN x
    ELSE [t |-> "unrepresented"]

\* 1e18 + 0.6
F_1e18_plus_0_6 == FloatAdd(F_1e18, F_0_6)

\* _conversion_unit = Decimal( 1e18 )
_conversion_unit == DecimalOf(F_1e18)

\* if isinstance( atto, float ): atto = int( atto )
\* return Decimal( atto ) / _conversion_unit
convert_atto_to_woc(atto) ==
    LET truncated == IF atto.t = "float" THEN IntOfFloat(atto) ELSE atto
    IN  DecimalDiv(DecimalOf(truncated), _conversion_unit)

\* if isinstance( woc, float ): woc = str( woc )
\* return Decimal( woc ) * _conversion_unit
convert_woc_to_atto(woc) ==
    LET written == IF woc.t = "float" THEN StrOfFloat(woc) ELSE woc
    IN  DecimalMul(DecimalOf(written), _conversion_unit)

\* the largest power of ten among the amounts converted
MaxPow == 28

Pow10(k) == << 1 >> \o Zeros(k)
Pow10Plus1(k) == IF k = 0 THEN << 2 >> ELSE << 1 >> \o Zeros(k - 1) \o << 1 >>

\* the characters of a sequence of digits
Written(ds) == [i \in DOMAIN ds |-> CHOOSE c \in {"0", "1", "2", "3", "4", "5", "6", "7", "8", "9"} : DigitOf(c) = ds[i]]

Floats == {F_1e18, F_1e18_plus_0_6, F_0_6, F_1e_18, F_1_5, F_1234_5, F_1e23, F_0_1}

\* atomic amounts: integers, the same written as str and as Decimal, and floats
AttoInts == {PyInt(<< 0 >>)} \cup {PyInt(Pow10(k)) : k \in 0 .. MaxPow}
                \cup {PyInt(Pow10Plus1(k)) : k \in 0 .. MaxPow}
AttoInputs ==
    AttoInts
    \cup {Str(Written(i.digits)) : i \in AttoInts}
    \cup {Dec(i.digits, 0) : i \in AttoInts}
    \cup Floats

\* display amounts: a whole number of atomic units written with eighteen decimals,
\* and those of the tests
WocInputs ==
    {Dec(i.digits, 0 - (Len(_conversion_unit.coef) - 1)) : i \in AttoInts}
    \cup {Str(<< "1" >>), Str(<< "1", ".", "5" >>), Str(<< "1", "e", "-", "1", "8" >>),
          Dec(<< 1 >>, 0), PyInt(<< 1 >>)}
    \cup {Str(Written(Pow10(10)) \o << "." >> \o Written(Zeros(17)) \o << "1" >>)}
    \cup Floats

InitNumbers ==
    /\ fn \in {"convert_atto_to_woc", "convert_woc_to_atto"}
    /\ args \in {<< x >> : x \in IF fn = "convert_atto_to_woc" THEN AttoInputs ELSE WocInputs}
    /\ endpoint = DEFAULT_ENDPOINT
    /\ timeout = DEFAULT_TIMEOUT
    /\ now = 0
    /\ pc = NewCall.pc
    /\ tx_hash = NewCall.tx_hash
    /\ start_time = NewCall.start_time
    /\ tx_response = NewCall.tx_response
    /\ outcome = NewCall.outcome
    /\ requests = NewCall.requests
    /\ sleeps = NewCall.sleeps
    /\ last_reply = Unset
    /\ zeroPolls = 0
    /\ onlyPending = TRUE
    /\ twin = NewCall
    /\ frames = << >>
    /\ solo = << >>
    /\ began = << >>

\* what a conversion leaves alone
unconverted ==
    << fn, args, endpoint, timeout, now, tx_hash, start_time, tx_response, requests,
       sleeps, last_reply, zeroPolls, onlyPending, twin, frames, solo, began >>

ConvertAttoToWoc ==
    /\ fn = "convert_atto_to_woc"
    /\ pc = "start"
    /\ outcome' = Return(convert_atto_to_woc(args[1]))
    /\ pc' = "done"
    /\ UNCHANGED unconverted

ConvertWocToAtto ==
    /\ fn = "convert_woc_to_atto"
    /\ pc = "start"
    /\ outcome' = Return(convert_woc_to_atto(args[1]))
    /\ pc' = "done"
    /\ UNCHANGED unconverted

\* the caller converts the display amount it got back to atomic units
ConvertBack ==
    /\ fn = "convert_atto_to_woc"
    /\ pc = "done"
    /\ outcome' = Return(convert_woc_to_atto(outcome.value))
    /\ pc' = "back"
    /\ UNCHANGED unconverted

NextNumbers ==
    \/ ConvertAttoToWoc
    \/ ConvertWocToAtto
    \/ ConvertBack

SpecNumbers == InitNumbers /\ [][NextNumbers]_vars

---------------------------------------------------------------------------
(* exceptions.py: InvalidValidatorError *)

\* errors = { 1: ..., 5: ... }
errors ==
    [code \in 1 .. 5 |->
        CASE code = 1 -> "Invalid WOC address"
          [] code = 2 -> "Field not initialized"
          [] code = 3 -> "Invalid field input"
          [] code = 4 -> "Error checking blockchain"
          [] code = 5 -> "Unable to import validator information from blockchain"]

\* def __init__( self, err_code, msg ):
\*     self.code = err_code
\*     self.msg = msg
\*     super().__init__( msg )
InvalidValidatorError(err_code, msg) ==
    [exc |-> "InvalidValidatorError", code |-> err_code, msg |-> msg, args |-> << msg >>]

\* the digits of a natural number
RECURSIVE DigitsOf(_)
DigitsOf(n) == IF n < 10 THEN << n >> ELSE DigitsOf(n \div 10) \o << n % 10 >>

\* f"{self.code}" of an int
FormatInt(n) == IF n < 0 THEN << "-" >> \o Written(DigitsOf(0 - n)) ELSE Written(DigitsOf(n))

\* errors[ self.code ] of a code that is not a key
KeyError(key) == [exc |-> "KeyError", message |-> << FormatInt(key) >>]

\* __str__ as ValueError has it, were it not overridden: the one argument
InvalidValidatorError__str___Inherited(self) == Return(self.args)

\* def __str__( self ):
\*     return f"[Errno {self.code}] {self.errors[self.code]}: {self.msg}"
\* The text is the sequence of its pieces.
InvalidValidatorError__str__(self) ==
    IF self.code \in DOMAIN errors
    THEN Return(<< "[Errno ", FormatInt(self.code), "] ", errors[self.code], ": ", self.msg >>)
    ELSE Raise(KeyError(self.code))

\* the largest code an error is built with
MaxCode == 6

ErrCodes == -1 .. MaxCode

ErrMessages ==
    {"", "one1abc", "Address", "min_self_delegation", "rate", "[Errno 9] x: y",
     "Unable to import validator information from blockchain", "bls-key not added"}

InitErrors ==
    /\ fn = "InvalidValidatorError"
    /\ args \in {<< code, msg >> : code \in ErrCodes, msg \in ErrMessages}
    /\ endpoint = DEFAULT_ENDPOINT
    /\ timeout = DEFAULT_TIMEOUT
    /\ now = 0
    /\ pc = NewCall.pc
    /\ tx_hash = NewCall.tx_hash
    /\ start_time = NewCall.start_time
    /\ tx_response = NewCall.tx_response
    /\ outcome = NewCall.outcome
    /\ requests = NewCall.requests
    /\ sleeps = NewCall.sleeps
    /\ last_reply = Unset
    /\ zeroPolls = 0
    /\ onlyPending = TRUE
    /\ twin = NewCall
    /\ frames = << >>
    /\ solo = << >>
    /\ began = << >>

\* raise InvalidValidatorError( code, msg )
RaiseInvalidValidator ==
    /\ fn = "InvalidValidatorError"
    /\ pc = "start"
    /\ outcome' = Raise(InvalidValidatorError(args[1], args[2]))
    /\ pc' = "raised"
    /\ UNCHANGED unconverted

\* str( e ) of the error caught: the text, or the error of making it, and the error
\* itself afterwards
FormatInvalidValidator ==
    /\ fn = "InvalidValidatorError"
    /\ pc = "raised"
    /\ outcome' = [self |-> outcome.error, str |-> InvalidValidatorError__str__(outcome.error)]
    /\ pc' = "done"
    /\ UNCHANGED unconverted

NextErrors ==
    \/ RaiseInvalidValidator
    \/ FormatInvalidValidator

SpecErrors == InitErrors /\ [][NextErrors]_vars

---------------------------------------------------------------------------
(* send_and_confirm_raw_transaction with a node that answers at once: every *)
(* RPC takes no time, the clock moves in the sleeps only.                   *)

InitInstant ==
    /\ fn = "send_and_confirm_raw_transaction"
    /\ InitCall

InstantBroadcast ==
    /\ \E reply \in RepliesWith(BroadcastValues) : BroadcastWith(reply, 0)
    /\ UNCHANGED << twin, frames, solo, began >>

InstantLookup ==
    /\ \E reply \in RepliesWith(LookupValues) : LookupWith(reply, 0)
    /\ UNCHANGED << twin, frames, solo, began >>

NextInstant ==
    \/ InstantBroadcast
    \/ LoopTest
    \/ InstantLookup
    \/ Check
    \/ Sleep

SpecInstant == InitInstant /\ [][NextInstant]_vars

---------------------------------------------------------------------------
(* Claims *)

Polls == Len(requests) - 1
TimedOut ==
    Raise(TxConfirmationTimedoutError("Could not confirm transaction on-chain."))

\* C1: in send_and_confirm_raw_transaction (and its staking twin), as soon as a lookup
\* returns a record whose block hash has a non-zero character, the next step of the
\* call returns exactly that record, with no further request and no sleep, and a
\* call that has ended takes no further step.
C1_ReturnsFirstConfirmingRecord ==
    [][/\ pc # "done"
       /\ (fn \in ConfirmFunctions /\ pc = "check"
              /\ NonZeroRecord(last_reply.response.result))
           => /\ pc' = "done"
              /\ outcome' = Return(last_reply.response.result)
              /\ requests' = requests
              /\ sleeps' = sleeps
              /\ now' = now]_vars

\* three polls with an all-zero hash, then 0x00...01: the fourth record comes back
\* after exactly four lookups and three sleeps
C1_Witness ==
    /\ fn = "send_and_confirm_raw_transaction"
    /\ pc = "done"
    /\ outcome = Return(Dict([hash |-> Id("0xa1"), blockHash |-> Str(OneAt(HashLen))]))
    /\ Polls = 4
    /\ zeroPolls = 3
    /\ sleeps = 3

\* C2: if the broadcast succeeds and every lookup returns null or a record with an
\* all-zero block hash, the call does not return a record: it ends, and it ends by
\* raising TxConfirmationTimedoutError at a test where the time since the start
\* exceeds the caller's timeout.
C2_TimesOutWhenNeverConfirmed ==
    /\ [](fn \in ConfirmFunctions /\ pc = "done" /\ tx_hash # Unset /\ onlyPending
            => /\ outcome = TimedOut
               /\ now - start_time > timeout)
    /\ <>(pc = "done")

\* a timeout of one second, five lookups that all find an all-zero hash
C2_Witness ==
    /\ fn = "send_and_confirm_raw_transaction"
    /\ timeout = MaxTimeout
    /\ pc = "done"
    /\ onlyPending
    /\ zeroPolls = Polls
    /\ Polls >= 3
    /\ outcome = TimedOut

\* C3: a record with a block hash string is classified as confirmed exactly when the
\* set of distinct characters of the hash without its first two characters is not
\* {"0"}: 0x and 64 zeros is pending, 0x and 63 zeros with one non-zero character at
\* any of the 64 places is confirmed.
C3_ConfirmedIffCharsNotJustZero ==
    (pc \in {"done", "sleep"} /\ HasHashString(tx_response))
        => LET hash == tx_response.v.blockHash.v
               distinct == {hash[i] : i \in 3 .. Len(hash)}
           IN  /\ IF distinct # {"0"}
                  THEN pc = "done" /\ outcome = Return(tx_response)
                  ELSE pc = "sleep" /\ outcome = Running
               /\ hash = ZeroHash => pc = "sleep"
               /\ \A i \in 1 .. HashLen : hash = OneAt(i) => pc = "done"

\* 63 zeros and a 1 in the middle of them
C3_Witness ==
    /\ pc = "done"
    /\ tx_response = Dict([hash |-> Id("0xa1"), blockHash |-> Str(OneAt(HashLen \div 2))])
    /\ outcome = Return(tx_response)

\* C4: a lookup that returns null, or a record with an all-zero block hash, never ends
\* the call by itself: the call goes on to the sleep and to the next test of the
\* deadline, and a call that has seen such a lookup ends only by a later confirming
\* lookup (a returned record), a failing RPC, or the deadline.
C4_PendingPollOnlyEndedByConfirmFailureOrDeadline ==
    [][/\ (fn \in ConfirmFunctions /\ Polls >= 1 /\ PendingReply(last_reply))
             => /\ pc = "check" => pc' = "sleep" /\ outcome' = Running
                /\ pc = "sleep" => pc' = "while" /\ outcome' = Running
                /\ pc = "while" /\ pc' = "done"
                      => outcome' = TimedOut /\ now - start_time > timeout
                /\ pc = "while" /\ pc' # "done" => pc' = "lookup" /\ outcome' = Running
       /\ (fn \in ConfirmFunctions /\ zeroPolls >= 1 /\ pc' = "done")
             => \/ outcome'.kind = "return"
                \/ outcome' = TimedOut
                \/ /\ outcome'.kind = "raise"
                   /\ outcome'.error.exc \in {"InvalidRPCReplyError", "RPCError"}
                   /\ ~HasResult(last_reply')]_vars

\* C5: if the response to the broadcast has no result key, both confirming functions
\* raise InvalidRPCReplyError at once: one request in all, no lookup, no sleep.
C5_BroadcastMismatchPropagates ==
    [][(fn \in ConfirmFunctions /\ pc = "start" /\ last_reply' = Returned(NoResult))
           => /\ pc' = "done"
              /\ outcome'.kind = "raise"
              /\ outcome'.error.exc = "InvalidRPCReplyError"
              /\ Len(requests') = 1
              /\ sleeps' = 0]_vars

C5_Witness ==
    /\ fn = "send_and_confirm_raw_staking_transaction"
    /\ pc = "done"
    /\ last_reply = Returned(NoResult)
    /\ outcome = Raise(InvalidRPCReplyError("wikiv2_sendRawStakingTransaction", endpoint))
    /\ Len(requests) = 1
    /\ sleeps = 0

\* C6: for every operation of the query facade, a response without a result key
\* raises InvalidRPCReplyError naming the method that was sent and the endpoint that
\* was queried, and a response whose result is null returns null.
C6_MissingResultRaisesNullReturns ==
    (fn \in FacadeOps /\ pc = "done")
        => /\ last_reply = Returned(NoResult)
                => outcome =
                       Raise([exc |-> "InvalidRPCReplyError",
                              message |-> << "Unexpected reply for ", requests[1].method,
                                             " from ", requests[1].endpoint >>])
           /\ last_reply = Returned(Response(Null)) => outcome = Return(Null)
           /\ requests[1].method = Method[fn]
           /\ requests[1].endpoint = endpoint

C6_Witness ==
    /\ fn = "get_pool_stats"
    /\ endpoint # DEFAULT_ENDPOINT
    /\ pc = "done"
    /\ last_reply = Returned(NoResult)
    /\ outcome.kind = "raise"
    /\ outcome.error.message =
           << "Unexpected reply for ", "wikiv2_getPoolStats", " from ", "http://node:9500" >>

\* C7: every call of a facade operation, made by the caller or by a confirming
\* function, issues exactly one rpc_request, whether it returns or raises, and what
\* it returns is the result of that request's response.
C7_OneRequestPerCall ==
    [][/\ pc \in {"start", "lookup"} => Len(requests') = Len(requests) + 1
       /\ pc \notin {"start", "lookup"} => requests' = requests
       /\ (fn \in FacadeOps /\ pc = "start")
             => /\ pc' = "done"
                /\ outcome'.kind \in {"return", "raise"}
                /\ outcome'.kind = "return"
                      => /\ HasResult(last_reply')
                         /\ outcome'.value = last_reply'.response.result]_vars

C7_Witness ==
    /\ fn = "send_raw_staking_transaction"
    /\ pc = "done"
    /\ Len(requests) = 1
    /\ outcome.kind = "raise"
    /\ outcome.error.exc = "InvalidRPCReplyError"

\* C8: send_and_confirm_raw_staking_transaction is the same state machine as
\* send_and_confirm_raw_transaction: given the same broadcast response, the same
\* lookup responses, the same clock and the same sleeps, the two are always at the
\* same place, have issued the same number of requests, which differ only in their
\* methods, have slept as often, and end with the same record or the same kind of
\* failure.
C8_StakingIsTheSameMachine ==
    /\ twin.pc = pc
    /\ twin.tx_hash = tx_hash
    /\ twin.start_time = start_time
    /\ twin.tx_response = tx_response
    /\ twin.sleeps = sleeps
    /\ Len(twin.requests) = Len(requests)
    /\ \A i \in 1 .. Len(requests) :
           /\ requests[i].method =
                  IF i = 1 THEN "wikiv2_sendRawTransaction" ELSE "wikiv2_getTransactionByHash"
           /\ twin.requests[i] =
                  [requests[i] EXCEPT !.method =
                       IF i = 1 THEN "wikiv2_sendRawStakingTransaction"
                                ELSE "wikiv2_getStakingTransactionByHash"]
    /\ twin.outcome.kind = outcome.kind
    /\ outcome.kind = "return" => twin.outcome.value = outcome.value
    /\ outcome.kind = "raise" => twin.outcome.error.exc = outcome.error.exc

\* both have timed out after the same three lookups
C8_Witness ==
    /\ pc = "done"
    /\ twin.pc = "done"
    /\ outcome = TimedOut
    /\ twin.outcome = TimedOut
    /\ Polls = 3
    /\ Len(twin.requests) = 4
    /\ twin.requests[4].method = "wikiv2_getStakingTransactionByHash"

\* C9: if the transport never fails, a call of send_and_confirm_raw_transaction that
\* ends returns a transaction record, raises TxConfirmationTimedoutError or raises
\* InvalidRPCReplyError, whatever the lookups return, a record without blockHash and
\* a record whose blockHash is null included.
C9_EndsInOneOfThreeWays ==
    (fn = "send_and_confirm_raw_transaction" /\ pc = "done" /\ ~last_reply.raised)
        => \/ outcome.kind = "return" /\ IsRecord(outcome.value)
           \/ outcome = TimedOut
           \/ /\ outcome.kind = "raise"
              /\ outcome.error.exc = "InvalidRPCReplyError"

\* C10: every record returned by either confirming function has a block hash with at
\* least one non-zero character after the 0x prefix: a record whose block hash body
\* is empty or all zeros is never returned.
C10_ReturnedHashHasNonZeroDigit ==
    (fn \in ConfirmFunctions /\ pc = "done" /\ outcome.kind = "return")
        => NonZeroRecord(outcome.value)

\* the by-hash lookups an invocation with locals l has made
LookupsOf(l) == {l.requests[i] : i \in 2 .. Len(l.requests)}

EndedBy(l, exc) ==
    l.pc = "done" /\ l.outcome.kind = "raise" /\ l.outcome.error.exc = exc

\* C11: confirmation calls running side by side share no mutable state: under every
\* interleaving of their broadcasts, lookups and sleeps, each call is where it would
\* be, with the outcome and the requests it would have, had it run alone on the
\* responses and the clock readings it was given, and every lookup of a call asks
\* for the hash its own broadcast returned.
C11_ConcurrentCallsAreIndependent ==
    \A c \in Calls :
        /\ frames[c] = solo[c]
        /\ frames[c].outcome = solo[c].outcome
        /\ Len(frames[c].requests) = Len(solo[c].requests)
        /\ \A r \in LookupsOf(frames[c]) :
               /\ r.method = "wikiv2_getTransactionByHash"
               /\ r.params = << solo[c].tx_hash >>

\* two calls whose waits overlap, with different hashes: the first times out after two
\* lookups, the second, started before the first ended, returns its record
C11_Witness ==
    /\ frames[1].tx_hash = Id("0xa1")
    /\ frames[2].tx_hash = Id("0xb2")
    /\ EndedBy(frames[1], "TxConfirmationTimedoutError")
    /\ Len(frames[1].requests) = 3
    /\ frames[2].pc = "done"
    /\ frames[2].outcome =
           Return(Dict([hash |-> Id("0xb2"), blockHash |-> Str(OneAt(HashLen))]))
    /\ Len(frames[2].requests) = 3
    /\ frames[1].start_time < frames[2].start_time
    /\ frames[2].start_time <= frames[1].start_time + ShortTimeout
    /\ now <= frames[1].start_time + ShortTimeout + SleepMin

\* C12: a call that timed out leaves nothing behind.  An invocation made afterwards
\* with the same signed transaction goes as a first invocation would on the same
\* responses and clock readings: it broadcasts the signed transaction again, reads
\* its own start time then, looks up the hash its own broadcast returned, and times
\* out only when the time since its own start exceeds the timeout.
C12_ReinvocationStartsFromScratch ==
    frames[2].pc # "idle"
        => /\ EndedBy(frames[1], "TxConfirmationTimedoutError")
           /\ args[2] = args[1]
           /\ frames[2] = solo[2]
           /\ frames[2].pc = "start" => frames[2] = NewCall
           /\ frames[2].pc # "start"
                  => /\ frames[2].requests[1] =
                            Request("send_raw_transaction", << args[1] >>, endpoint,
                                    DEFAULT_TIMEOUT)
                     /\ Len(frames[2].requests) = 1 + Cardinality(
                            {i \in 2 .. Len(frames[2].requests) :
                                 frames[2].requests[i].method = "wikiv2_getTransactionByHash"})
           /\ frames[2].tx_hash # Unset
                  => /\ frames[2].start_time > frames[1].start_time + timeout
                     /\ \A r \in LookupsOf(frames[2]) : r.params = << frames[2].tx_hash >>
           /\ EndedBy(frames[2], "TxConfirmationTimedoutError")
                  => now - frames[2].start_time > timeout

\* the first invocation got the hash 0xa1 and timed out; the second, made afterwards,
\* got 0xb2 from its own broadcast, looked that up twice and timed out in its turn
C12_Witness ==
    /\ frames[1].tx_hash = Id("0xa1")
    /\ EndedBy(frames[1], "TxConfirmationTimedoutError")
    /\ frames[2].tx_hash = Id("0xb2")
    /\ EndedBy(frames[2], "TxConfirmationTimedoutError")
    /\ Len(frames[2].requests) = 3
    /\ frames[2].requests[3].params = << Id("0xb2") >>

\* a Decimal without the zeros at the end of its coefficient
RECURSIVE Normal(_)
Normal(d) ==
    IF \A i \in DOMAIN d.coef : d.coef[i] = 0 THEN Dec(<< 0 >>, 0)
    ELSE IF d.coef[Len(d.coef)] = 0
         THEN Normal(Dec(SubSeq(d.coef, 1, Len(d.coef) - 1), d.exp + 1))
         ELSE d

\* a == b of two Decimals: the same number
SameValue(a, b) == Normal(a) = Normal(b)

\* d times ten to the power k, exactly
Scaled(d, k) == Dec(d.coef, d.exp + k)

\* the digits of d before the decimal point
WholePart(d) ==
    IF d.exp >= 0 THEN Dec(d.coef, d.exp)
    ELSE IF Len(d.coef) + d.exp <= 0 THEN Dec(<< 0 >>, 0)
    ELSE Dec(SubSeq(d.coef, 1, Len(d.coef) + d.exp), 0)

\* C13: for every non-negative integer atomic amount a,
\* convert_woc_to_atto( convert_atto_to_woc( a ) ) equals a.
C13_RoundTripGivesTheAmountBack ==
    (fn = "convert_atto_to_woc" /\ pc = "back" /\ args[1].t = "int")
        => SameValue(outcome.value, Dec(args[1].digits, 0))

\* C14: convert_atto_to_woc gives exactly the atomic amount divided by 10^18, the
\* amount being the whole part of the input when the input is a float; 10^18 as a
\* float, as a str, as a Decimal, and the float 1e18 + 0.6, all give exactly 1.
C14_DividesByTenToTheEighteenthExactly ==
    (fn = "convert_atto_to_woc" /\ pc = "done")
        => LET atto == args[1]
               amount == IF atto.t = "float" THEN WholePart(atto.exact)
                         ELSE IF atto.t = "str" THEN ParseDecimal(atto.v)
                         ELSE IF atto.t = "int" THEN Dec(atto.digits, 0)
                         ELSE atto
           IN  /\ SameValue(outcome.value, Scaled(amount, -18))
               /\ atto \in {F_1e18, F_1e18_plus_0_6, Str(Written(Pow10(18))),
                            Dec(Pow10(18), 0)}
                      => SameValue(outcome.value, Dec(<< 1 >>, 0))

\* C15: convert_woc_to_atto gives exactly the display amount times 10^18, the amount
\* of a float being the one its str( ) writes: 1e-18 gives exactly 1, 1.5 gives
\* exactly 15 * 10^17, "1" and Decimal( 1 ) give exactly 10^18.
C15_MultipliesByTenToTheEighteenthExactly ==
    (fn = "convert_woc_to_atto" /\ pc = "done")
        => LET woc == args[1]
               amount == IF woc.t = "float" THEN ParseDecimal(woc.repr)
                         ELSE IF woc.t = "str" THEN ParseDecimal(woc.v)
                         ELSE IF woc.t = "int" THEN Dec(woc.digits, 0)
                         ELSE woc
           IN  /\ SameValue(outcome.value, Scaled(amount, 18))
               /\ woc = F_1e_18 => SameValue(outcome.value, Dec(<< 1 >>, 0))
               /\ woc = F_1_5 => SameValue(outcome.value, Dec(<< 1, 5 >>, 17))
               /\ woc \in {Str(<< "1" >>), Dec(<< 1 >>, 0)}
                      => SameValue(outcome.value, Dec(Pow10(18), 0))

\* C16: the string form of an InvalidValidatorError built with one of the five codes
\* and a message is "[Errno <code>] <description>: <message>", the description being
\* fixed by the code (1 invalid address, 2 field not initialized, 3 invalid field
\* input, 4 error checking blockchain, 5 unable to import validator information), and
\* the code and the message can be read on the error, unchanged, before and after.
C16_ErrnoStringForm ==
    (fn = "InvalidValidatorError" /\ pc \in {"raised", "done"})
        => LET e == IF pc = "raised" THEN outcome.error ELSE outcome.self
               description ==
                   CASE args[1] = 1 -> "Invalid WOC address"
                     [] args[1] = 2 -> "Field not initialized"
                     [] args[1] = 3 -> "Invalid field input"
                     [] args[1] = 4 -> "Error checking blockchain"
                     [] args[1] = 5 -> "Unable to import validator information from blockchain"
               digit == CASE args[1] = 1 -> "1" [] args[1] = 2 -> "2" [] args[1] = 3 -> "3"
                          [] args[1] = 4 -> "4" [] args[1] = 5 -> "5"
           IN  /\ e.code = args[1]
               /\ e.msg = args[2]
               /\ (pc = "done" /\ args[1] \in 1 .. 5)
                      => outcome.str =
                             Return(<< "[Errno ", << digit >>, "] ", description, ": ",
                                       args[2] >>)

C16_Witness ==
    /\ fn = "InvalidValidatorError"
    /\ pc = "done"
    /\ args = << 4, "rate" >>
    /\ outcome.str = Return(<< "[Errno ", << "4" >>, "] ", "Error checking blockchain", ": ",
                               "rate" >>)
    /\ outcome.self.code = 4
    /\ outcome.self.msg = "rate"

\* C17: every operation of the query facade sends its own RPC method, with the
\* caller's identifier arguments as the parameter list, unmodified and in the order
\* of declaration (none for an operation that takes none), to the caller's endpoint
\* with the caller's timeout, and returns the result of the response unchanged.
C17_IdentifiersPassedThroughVerbatim ==
    /\ \A f, g \in FacadeOps : Method[f] = Method[g] => f = g
    /\ (fn \in FacadeOps /\ pc = "done")
           => /\ Len(requests) = 1
              /\ requests[1].method = Method[fn]
              /\ fn = "get_transaction_by_block_hash_and_index"
                     => requests[1].method = "wikiv2_getTransactionByBlockHashAndIndex"
              /\ fn = "get_staking_transaction_by_block_number_and_index"
                     => requests[1].method =
                            "wikiv2_getStakingTransactionByBlockNumberAndIndex"
              /\ Len(requests[1].params) = Len(args)
              /\ \A i \in 1 .. Len(args) : requests[1].params[i] = args[i]
              /\ requests[1].endpoint = endpoint
              /\ requests[1].timeout = timeout
              /\ HasResult(last_reply) => outcome = Return(last_reply.response.result)

\* block number 0xb2, index 0xa1, in that order, to the node, with a timeout of 0
C17_Witness ==
    /\ fn = "get_staking_transaction_by_block_number_and_index"
    /\ args = << Id("0xb2"), Id("0xa1") >>
    /\ endpoint = "http://node:9500"
    /\ timeout = 0
    /\ pc = "done"
    /\ requests[1].params = << Id("0xb2"), Id("0xa1") >>
    /\ outcome = Return(Dict([hash |-> Id("0xa1"), blockHash |-> Str(OneAt(HashLen))]))

\* C18: the RPC trace of send_and_confirm_raw_transaction is one broadcast followed
\* by by-hash lookups and nothing else: the first request, and only the first, is
\* wikiv2_sendRawTransaction of the signed transaction; every later one is
\* wikiv2_getTransactionByHash of the hash the broadcast returned; all of them go to
\* the caller's endpoint.
C18_OneBroadcastThenLookups ==
    [][fn = "send_and_confirm_raw_transaction"
           => /\ pc = "start"
                    => /\ requests = << >>
                       /\ Len(requests') = 1
                       /\ requests'[1].method = "wikiv2_sendRawTransaction"
                       /\ requests'[1].params = << args[1] >>
                       /\ requests'[1].endpoint = endpoint
                       /\ pc' # "done" => /\ HasResult(last_reply')
                                          /\ tx_hash' = last_reply'.response.result
              /\ pc = "lookup"
                    => /\ Len(requests') = Len(requests) + 1
                       /\ SubSeq(requests', 1, Len(requests)) = requests
                       /\ requests'[Len(requests')].method = "wikiv2_getTransactionByHash"
                       /\ requests'[Len(requests')].params = << tx_hash >>
                       /\ requests'[Len(requests')].endpoint = endpoint
              /\ pc \notin {"start", "lookup"} => requests' = requests
              /\ pc # "start" => tx_hash' = tx_hash /\ Len(requests) >= 1]_vars

\* one broadcast and three lookups of 0xa1, all sent to the node
C18_Witness ==
    /\ fn = "send_and_confirm_raw_transaction"
    /\ endpoint = "http://node:9500"
    /\ pc = "done"
    /\ outcome.kind = "return"
    /\ Len(requests) = 4
    /\ requests[1].method = "wikiv2_sendRawTransaction"
    /\ \A i \in 2 .. 4 :
           /\ requests[i].method = "wikiv2_getTransactionByHash"
           /\ requests[i].params = << Id("0xa1") >>
           /\ requests[i].endpoint = "http://node:9500"

\* C19: if a by-hash lookup of the polling loop gets a response without a result key,
\* the call ends in that step by raising InvalidRPCReplyError for the lookup's method
\* and the caller's endpoint: no further lookup, no sleep, no confirmation timeout.
C19_LookupMismatchPropagates ==
    [][(fn \in ConfirmFunctions /\ pc = "lookup" /\ last_reply' = Returned(NoResult))
           => /\ pc' = "done"
              /\ outcome' =
                     Raise([exc |-> "InvalidRPCReplyError",
                            message |-> << "Unexpected reply for ",
                                           IF fn = "send_and_confirm_raw_transaction"
                                           THEN "wikiv2_getTransactionByHash"
                                           ELSE "wikiv2_getStakingTransactionByHash",
                                           " from ", endpoint >>])
              /\ Len(requests') = Len(requests) + 1
              /\ sleeps' = sleeps]_vars

\* the second lookup, after a pending one and a sleep, comes back without a result
C19_Witness ==
    /\ fn = "send_and_confirm_raw_transaction"
    /\ pc = "done"
    /\ last_reply = Returned(NoResult)
    /\ Polls = 2
    /\ sleeps = 1
    /\ outcome = Raise(InvalidRPCReplyError("wikiv2_getTransactionByHash", endpoint))

\* C20: a record without a blockHash field that a lookup returns is taken for one with
\* the block hash 0x00 and so for pending: it is not returned, the call sleeps and
\* goes on to the next test of the deadline.
C20_AbsentBlockHashIsPending ==
    [][(/\ fn \in ConfirmFunctions
        /\ pc = "check"
        /\ IsRecord(tx_response)
        /\ "blockHash" \notin DOMAIN tx_response.v)
           => /\ pc' = "sleep"
              /\ outcome' = Running
              /\ requests' = requests]_vars

\* a record without the field was looked up twice, the call is about to sleep again
C20_Witness ==
    /\ fn = "send_and_confirm_raw_staking_transaction"
    /\ pc = "sleep"
    /\ tx_response = Dict([hash |-> Id("0xa1")])
    /\ last_reply = Returned(Response(Dict([hash |-> Id("0xa1")])))
    /\ Polls = 2
    /\ sleeps = 1
    /\ ~onlyPending

\* C21: every call of send_and_confirm_raw_transaction with a timeout T >= 0 ends
\* (by returning a record, by the confirmation timeout or by a failure), given that
\* every RPC returns and every sleep lasts at least SleepMin ticks; and it makes at
\* most floor(T / SleepMin) + 1 lookups.
C21_EndsWithinTheLookupBudget ==
    /\ [](fn = "send_and_confirm_raw_transaction" /\ timeout >= 0
            => Polls <= (timeout \div SleepMin) + 1)
    /\ (fn = "send_and_confirm_raw_transaction" /\ timeout >= 0) ~> (pc = "done")

\* the budget is met: a timeout of one second, RPCs that take no time and sleeps of
\* 0.2 s give lookups at 0, 0.2, ..., 1.0 s and the timeout at 1.2 s
C21_Witness ==
    /\ fn = "send_and_confirm_raw_transaction"
    /\ timeout = MaxTimeout
    /\ pc = "done"
    /\ outcome = TimedOut
    /\ Polls = (MaxTimeout \div SleepMin) + 1
    /\ sleeps = Polls
    /\ now - start_time = MaxTimeout + SleepMin

\* C22: the deadline of send_and_confirm_raw_transaction runs from the clock's reading
\* after the broadcast has returned; it is tested at the head of the loop only, and
\* inclusively: elapsed <= timeout goes on to a lookup, elapsed > timeout raises the
\* confirmation timeout, and nothing else raises it.  A confirming record is returned
\* whatever the clock says when it arrives.
C22_DeadlineTestedBeforeEachLookup ==
    [][fn = "send_and_confirm_raw_transaction"
           => /\ (pc = "start" /\ pc' = "while") => start_time' = now'
              /\ pc # "start" => start_time' = start_time
              /\ pc = "while"
                    => /\ now' = now
                       /\ (now - start_time <= timeout)
                              => (pc' = "lookup" /\ outcome' = Running)
                       /\ (now - start_time > timeout)
                              => (pc' = "done" /\ outcome' = TimedOut)
              /\ (outcome' = TimedOut /\ outcome # TimedOut)
                    => (pc = "while" /\ now - start_time > timeout)
              /\ (pc = "check" /\ NonZeroRecord(tx_response))
                    => (pc' = "done" /\ outcome' = Return(tx_response))]_vars

\* timeout 0: the broadcast took 0.1 s, the only lookup began at elapsed 0 and took
\* 0.1 s, and its confirming record is returned at elapsed 0.1 s, after the deadline
C22_Witness ==
    /\ fn = "send_and_confirm_raw_transaction"
    /\ timeout = 0
    /\ start_time = MaxRpcDur
    /\ pc = "done"
    /\ Polls = 1
    /\ sleeps = 0
    /\ now - start_time > timeout
    /\ NonZeroRecord(tx_response)
    /\ outcome = Return(tx_response)

\* C23: in both polling loops every lookup that finds null or an all-zero block hash is
\* followed by exactly one sleep of SleepMin to SleepMax ticks, whatever the clock
\* and however many sleeps went before; a sleep follows nothing but such a check, so
\* none comes before the first lookup or after a confirming one.  Counted: between a
\* sleep and the next lookup's return there are as many sleeps as lookups, otherwise
\* one less.
C23_OneBoundedSleepAfterEachPendingLookup ==
    [](fn \in ConfirmFunctions
         => /\ pc \in {"while", "lookup"} => sleeps = Polls
            /\ pc \in {"check", "sleep"} => sleeps = Polls - 1
            /\ Polls <= 0 => sleeps = 0
            /\ outcome.kind = "return" => sleeps = Polls - 1
            /\ outcome = TimedOut => sleeps = Polls)
    /\
    [][(fn \in ConfirmFunctions)
         => /\ (pc = "check" /\ PendingReply(last_reply))
                  => (pc' = "sleep" /\ sleeps' = sleeps /\ now' = now)
            /\ (pc = "check" /\ NonZeroRecord(tx_response))
                  => (pc' = "done" /\ sleeps' = sleeps /\ now' = now)
            /\ pc = "sleep"
                  => /\ pc' = "while"
                     /\ sleeps' = sleeps + 1
                     /\ now' - now \in SleepMin .. SleepMax
                     /\ requests' = requests
            /\ pc # "sleep" => sleeps' = sleeps
            /\ pc' = "sleep" => pc = "check"]_vars

\* three lookups at 0, 0.5 and 1.0 s, each followed by a sleep of 0.5 s, the last one
\* carrying the staking call past its deadline of 1 s
C23_Witness ==
    /\ fn = "send_and_confirm_raw_staking_transaction"
    /\ timeout = MaxTimeout
    /\ pc = "done"
    /\ outcome = TimedOut
    /\ onlyPending
    /\ Polls = 3
    /\ sleeps = 3
    /\ now - start_time = 3 * SleepMax

\* C24: when no RPC takes any time and the timeout T is not negative, the confirmation
\* timeout of send_and_confirm_raw_transaction is raised at an elapsed time greater
\* than T and not greater than T plus one longest sleep.
C24_TimesOutWithinOneSleepPastTheDeadline ==
    (fn = "send_and_confirm_raw_transaction" /\ timeout >= 0 /\ outcome = TimedOut)
        => /\ now - start_time > timeout
           /\ now - start_time <= timeout + SleepMax

\* both ends are met with a timeout of 1 s: sleeps of 0.5 s end at 1.5 s, and four
\* sleeps of 0.2 s and one of 0.3 s end at 1.1 s (witnessed here: the far end)
C24_Witness ==
    /\ fn = "send_and_confirm_raw_transaction"
    /\ timeout = MaxTimeout
    /\ pc = "done"
    /\ outcome = TimedOut
    /\ start_time = 0
    /\ now = MaxTimeout + SleepMax

\* C25: in both confirming functions every request, the broadcast and each by-hash
\* lookup, is issued with the default per-request timeout and sent to the caller's
\* endpoint; the caller's timeout reaches no request (it is the limit of the loop
\* test only).
C25_RequestsUseTheDefaultTimeout ==
    fn \in ConfirmFunctions
        => \A i \in 1 .. Len(requests) :
               /\ requests[i].timeout = DEFAULT_TIMEOUT
               /\ requests[i].endpoint = endpoint

\* a staking call with a timeout of 0 to another endpoint than the default: its
\* broadcast and its lookup went there, with the default timeout and not with 0
C25_Witness ==
    /\ fn = "send_and_confirm_raw_staking_transaction"
    /\ timeout = 0
    /\ timeout # DEFAULT_TIMEOUT
    /\ endpoint = "http://node:9500"
    /\ endpoint # DEFAULT_ENDPOINT
    /\ pc = "done"
    /\ outcome = TimedOut
    /\ Len(requests) = 2
    /\ requests[1].method = "wikiv2_sendRawStakingTransaction"
    /\ requests[2].method = "wikiv2_getStakingTransactionByHash"
    /\ \A i \in 1 .. 2 : /\ requests[i].timeout = DEFAULT_TIMEOUT
                         /\ requests[i].endpoint = "http://node:9500"

\* C26: send_and_confirm_raw_transaction enters its loop only after a broadcast that
\* the node answered with a result, so whenever it has raised the confirmation
\* timeout exactly one broadcast was sent and it succeeded; with a timeout below 0 a
\* call whose broadcast succeeded ends by that exception after no lookup and no
\* sleep.
C26_TimeoutComesAfterOneSuccessfulBroadcast ==
    [](fn = "send_and_confirm_raw_transaction"
         => /\ outcome = TimedOut
                  => /\ Len(requests) >= 1
                     /\ \A i \in 1 .. Len(requests) :
                            (requests[i].method = "wikiv2_sendRawTransaction") <=> (i = 1)
                     /\ requests[1].params = << args[1] >>
                     /\ tx_hash # Unset
            /\ (timeout < 0 /\ pc = "done" /\ tx_hash # Unset)
                  => (outcome = TimedOut /\ Polls = 0 /\ sleeps = 0))
    /\
    [][(fn = "send_and_confirm_raw_transaction")
         => /\ (pc = "start" /\ pc' # "done")
                  => (HasResult(last_reply') /\ tx_hash' = last_reply'.response.result)
            /\ (outcome' = TimedOut) => pc # "start"]_vars

\* a timeout of -1: the broadcast was answered with the hash 0xa1, and the call timed
\* out at the first test, having sent nothing else
C26_Witness ==
    /\ fn = "send_and_confirm_raw_transaction"
    /\ timeout = -1
    /\ pc = "done"
    /\ outcome = TimedOut
    /\ tx_hash = Id("0xa1")
    /\ last_reply = Returned(Response(Id("0xa1")))
    /\ Len(requests) = 1
    /\ sleeps = 0

====
